---- MODULE Spec2Model ----
(***************************************************************************)
(* Stock scraper: the scrape cycle (scraper.js), the Stock model's static  *)
(* queries (models/data_model.js) and the triggers of a cycle (server.js). *)
(*                                                                         *)
(* A text (innerText of a cell) is a sequence of one-character strings.    *)
(* A number is an integer counting units of 10^-MaxTextLen, which is exact *)
(* for every decimal that a text of at most MaxTextLen characters spells.  *)
(***************************************************************************)
EXTENDS Integers, Sequences, FiniteSets, TLC

\* ------------------------------------------------------------- bounds

\* Longest cell text the tables contain (also the number of decimals kept).
MaxTextLen == 3
\* Most rows in a table handed to the evaluate callback on its own.
MaxRows == 3
\* Most scrape cycles started in one behaviour.
MaxRuns == 3
\* Most documents in a store handed to a query on its own.
MaxDocs == 4
\* Largest limit a query is called with.
MaxLimit == 3
\* Most documents beside the bulk in a store handed to the market summary.
MaxExtra == 3
\* Most documents in a store handed to the listing.
MaxListed == 3
\* Largest page the listing is asked for.
MaxPage == 2

\* ------------------------------------------------------- characters

Digits == {"0", "1", "2", "5"}
UpperLetters == {"A", "B", "N"}
LowerLetters == {"a", "b"}

\* Code unit of a character (the order MongoDB's binary string comparison uses).
CharCode(ch) ==
    CASE ch = " " -> 32 [] ch = "," -> 44 [] ch = "-" -> 45 [] ch = "." -> 46
      [] ch = "/" -> 47 [] ch = "0" -> 48 [] ch = "1" -> 49 [] ch = "2" -> 50
      [] ch = "5" -> 53 [] ch = "A" -> 65 [] ch = "B" -> 66 [] ch = "N" -> 78
      [] ch = "a" -> 97 [] ch = "b" -> 98

DigitValue(ch) == CharCode(ch) - CharCode("0")

\* String.prototype.toUpperCase on one character.
toUpperCase(ch) ==
    CASE ch = "a" -> "A" [] ch = "b" -> "B" [] OTHER -> ch

RECURSIVE Pow10(_)
Pow10(n) == IF n = 0 THEN 1 ELSE 10 * Pow10(n - 1)

\* ------------------------------------------------- Record Normalizer

\* (str || '').replace(/[^A-Z0-9]/gi, '').toUpperCase()
cleanSymbol(str) ==
    LET kept == SelectSeq(str, LAMBDA ch :
                    ch \in Digits \cup UpperLetters \cup LowerLetters)
    IN  [i \in 1..Len(kept) |-> toUpperCase(kept[i])]

RECURSIVE trimStart(_)
trimStart(str) ==
    IF str # <<>> /\ Head(str) = " " THEN trimStart(Tail(str)) ELSE str

RECURSIVE trimEnd(_)
trimEnd(str) ==
    IF str # <<>> /\ str[Len(str)] = " "
    THEN trimEnd(SubSeq(str, 1, Len(str) - 1))
    ELSE str

\* (str || '').trim()
cleanText(str) == trimEnd(trimStart(str))

\* Length of the longest prefix of str made of digits.
RECURSIVE DigitRun(_)
DigitRun(str) ==
    IF str # <<>> /\ Head(str) \in Digits THEN 1 + DigitRun(Tail(str)) ELSE 0

\* The natural number a sequence of digits spells (0 for none).
RECURSIVE DigitsValue(_)
DigitsValue(ds) ==
    IF ds = <<>> THEN 0
    ELSE 10 * DigitsValue(SubSeq(ds, 1, Len(ds) - 1)) + DigitValue(ds[Len(ds)])

\* parseFloat on a text of digits, '.' and '-': an optional sign, digits, an
\* optional '.' and digits; the longest such prefix counts and the rest is
\* ignored; NaN when the prefix holds no digit.
parseFloat(str) ==
    LET neg      == str # <<>> /\ Head(str) = "-"
        body     == IF neg THEN Tail(str) ELSE str
        intLen   == DigitRun(body)
        rest     == SubSeq(body, intLen + 1, Len(body))
        hasDot   == rest # <<>> /\ Head(rest) = "."
        fracLen  == IF hasDot THEN DigitRun(Tail(rest)) ELSE 0
        intPart  == DigitsValue(SubSeq(body, 1, intLen))
        fracPart == IF fracLen = 0 THEN 0
                    ELSE DigitsValue(SubSeq(Tail(rest), 1, fracLen))
        abs      == intPart * Pow10(MaxTextLen)
                      + fracPart * Pow10(MaxTextLen - fracLen)
    IN  [nan |-> intLen = 0 /\ fracLen = 0,
         val |-> IF neg THEN 0 - abs ELSE abs]

\* parseNumber: placeholders and unparseable texts are 0.
parseNumber(str) ==
    IF str = <<>> \/ str = <<"-">> \/ str = <<"N", "/", "A">> THEN 0
    ELSE LET cleaned == SelectSeq(str, LAMBDA ch : ch \in Digits \cup {".", "-"})
             parsed  == parseFloat(cleaned)
         IN  IF parsed.nan THEN 0 ELSE parsed.val

\* --------------------------------------------------- Table Extractor

\* A row needs this many td cells to be read.
MinCells == 8

\* cells.length >= 8, off by one.
HasCellsStrict(cells) == Len(cells) > MinCells

\* cells.length >= 8
HasCells(cells) == Len(cells) >= MinCells

\* The object pushed for a row: cells 0..8 read by position.
RowRecord(cells) ==
    [symbol       |-> cleanSymbol(cells[1]),
     securityName |-> cleanText(cells[2]),
     open         |-> parseNumber(cells[3]),
     high         |-> parseNumber(cells[4]),
     low          |-> parseNumber(cells[5]),
     close        |-> parseNumber(cells[6]),
     change       |-> parseNumber(cells[7]),
     dailyVolume  |-> parseNumber(cells[8]),
     dailyValue   |-> parseNumber(IF Len(cells) >= 9 /\ cells[9] # <<>>
                                  THEN cells[9] ELSE <<"0">>)]

\* The output filter, letting a zero close through.
KeepStockNonNegative(s) == s.symbol # <<>> /\ s.close >= 0

\* s.symbol && s.close > 0
KeepStock(s) == s.symbol # <<>> /\ s.close > 0

\* The evaluate callback: rows.forEach pushes a record for every row with
\* enough cells, then the filter drops the invalid ones.
ExtractStocks(rows) ==
    LET wide   == SelectSeq(rows, HasCells)
        stocks == [i \in 1..Len(wide) |-> RowRecord(wide[i])]
    IN  SelectSeq(stocks, KeepStock)

\* ------------------------------------------------------ page contents

\* A tr with th cells only has no td cell.
HeaderRow == <<>>

\* A tr of n td cells; the cells not named hold "1".
DataRow(n, sym, name, close, change) ==
    [i \in 1..n |->
        CASE i = 1 -> sym [] i = 2 -> name [] i = 6 -> close [] i = 7 -> change
          [] OTHER -> <<"1">>]

NameA == <<" ", "A", "a">>
NameB == <<"B", "b", " ">>

\* Two valid rows (A, B) among a row of 6 cells, a placeholder close and a
\* symbol without any letter or digit.
TableAB ==
    << HeaderRow,
       DataRow(9, <<"A">>, NameA, <<"1", ".", "5">>, <<"0", ".", "5">>),
       DataRow(6, <<"B">>, NameB, <<"2">>, <<"1">>),
       DataRow(8, <<"b">>, NameB, <<"2">>, <<"-", "1">>),
       DataRow(9, <<"N">>, NameA, <<"-">>, <<"0">>),
       DataRow(9, <<"-", ".">>, NameA, <<"5">>, <<"0">>) >>

\* The symbol A twice in one table, with other quotes than TableAB's.
TableAA ==
    << HeaderRow,
       DataRow(9, <<" ", "a", ".">>, NameA, <<"5">>, <<"0">>),
       DataRow(9, <<"A">>, NameA, <<"2", ",", "5">>, <<"-", ".", "5">>),
       DataRow(9, <<"B">>, NameB, <<"N", "/", "A">>, <<"1">>),
       DataRow(9, <<"B">>, NameB, <<"0", ".", "0">>, <<"1">>),
       DataRow(9, <<"B">>, NameB, <<"-", "2">>, <<"1">>) >>

\* More than five rows, none of them valid.
TableNone ==
    << HeaderRow, HeaderRow,
       DataRow(6, <<"A">>, NameA, <<"1">>, <<"0">>),
       DataRow(9, <<"A">>, NameA, <<"0">>, <<"0">>),
       DataRow(9, <<>>, NameA, <<"1">>, <<"0">>),
       DataRow(8, <<"B">>, NameB, <<>>, <<"0">>) >>

\* Valid rows, but never more than five rows in all.
TableSmall ==
    << HeaderRow,
       DataRow(9, <<"A">>, NameA, <<"1">>, <<"0">>),
       DataRow(9, <<"B">>, NameB, <<"2">>, <<"1">>) >>

\* What the target page may show when a cycle reads it.
PageTables == {TableAB, TableAA, TableNone, TableSmall}

\* -------------------------------------------------------------- state

\* The callers of runScraper: the POST /api/scrape handler and the cron callback.
Triggers == {"manual", "cron"}

VARIABLES
    pc,           \* per trigger: where its scrape cycle stands
    browser,      \* per trigger: this.browser of its StockScraper: "null", "open", "closed"
    page,         \* per trigger: this.page: "null", "open", "closed"
    table,        \* per trigger: the rows of the page it navigated to
    stockData,    \* per trigger: processedStocks, the batch handed to saveToMongoDB
    idx,          \* per trigger: position of the for loop in the batch
    savedStocks,  \* per trigger: the documents the loop has pushed
    result,       \* per trigger: what scrapeStockData returned
    raised,       \* per trigger: whether scrapeStockData threw to its caller
    cause,        \* per trigger: the failure that ended the try block, or "none"
    store,        \* the stocks collection: a set of documents
    nextId,       \* the next _id the collection hands out
    clock,        \* the time new Date() last returned
    runs,         \* scrape cycles started so far
    orphans,      \* browsers left open by scrapers whose cycle has returned
    lastUpsert,   \* per symbol: the record of the last upsert applied for it
    rows,         \* the table handed to the evaluate callback on its own
    extracted,    \* what the callback returned for rows
    evaluated,    \* whether the callback has run on rows
    qLimit,       \* the limit of the last query
    qResult,      \* the documents the last query returned
    qDone,        \* whether a query has run
    qKept,        \* the documents the last market summary was grouped from
    qSummary,     \* the data of the last GET /summary response
    qRequest,     \* the req.query of the last GET /api/stocks
    qTotal        \* pagination.total of the last GET /api/stocks response

cycleVars == <<pc, browser, page, table, stockData, idx, savedStocks, result,
               raised, cause>>
storeVars == <<store, nextId, lastUpsert>>
extractVars == <<rows, extracted, evaluated>>
listVars == <<qKept, qSummary, qRequest, qTotal>>
queryVars == <<qLimit, qResult, qDone, listVars>>
vars == <<cycleVars, storeVars, clock, runs, orphans, extractVars, queryVars>>

\* The row count that waitForFunction waits to be exceeded.
RowThreshold == 5

\* ----------------------------------------------------- Upsert Store

\* Casting of the update by the schema: symbol is trimmed and upper-cased,
\* securityName trimmed.
castUpdate(info) ==
    [info EXCEPT !.symbol = [i \in 1..Len(cleanText(@)) |-> toUpperCase(cleanText(@)[i])],
                 !.securityName = cleanText(@)]

\* A filter on symbol and scrape time together.
MatchesSymbolAndTime(st, info) ==
    {d \in st : d.symbol = info.symbol /\ d.scrapedAt = info.scrapedAt}

\* The documents the filter { symbol: stockInfo.symbol } selects.
Matches(st, info) == {d \in st : d.symbol = info.symbol}

\* The document d after the update sets every field of info on it.
Updated(d, info) ==
    [f \in DOMAIN d |-> IF f \in DOMAIN info THEN info[f] ELSE d[f]]

\* The document an upsert inserts when the filter selected nothing.
Inserted(info, id) == [f \in DOMAIN info \cup {"id"} |->
                          IF f = "id" THEN id ELSE info[f]]

\* A document without its _id: the fields a scrape wrote.
Fields(d) == [f \in DOMAIN d \ {"id"} |-> d[f]]

\* ------------------------------------------------------ scrape cycle

\* A catch block that lets the error through to the caller.
catchRethrow(c, err) ==
    /\ raised' = [raised EXCEPT ![c] = TRUE]
    /\ cause' = [cause EXCEPT ![c] = err]
    /\ pc' = [pc EXCEPT ![c] = "finally"]
    /\ UNCHANGED result

\* catch (error) { console.error(...); return []; }, the finally block pending.
catch(c, err) ==
    /\ result' = [result EXCEPT ![c] = <<>>]
    /\ cause' = [cause EXCEPT ![c] = err]
    /\ pc' = [pc EXCEPT ![c] = "finally"]
    /\ UNCHANGED raised

\* runScraper: connectDB, then a new StockScraper (browser and page null)
\* whose scrapeStockData is called. The scraper of the trigger's previous
\* cycle is dropped; a browser it left open stays open.
runScraper(c) ==
    /\ pc[c] \in {"idle", "done"}
    /\ runs < MaxRuns
    /\ runs' = runs + 1
    /\ orphans' = orphans + (IF browser[c] = "open" THEN 1 ELSE 0)
    /\ pc' = [pc EXCEPT ![c] = "init"]
    /\ browser' = [browser EXCEPT ![c] = "null"]
    /\ page' = [page EXCEPT ![c] = "null"]
    /\ table' = [table EXCEPT ![c] = <<>>]
    /\ stockData' = [stockData EXCEPT ![c] = <<>>]
    /\ idx' = [idx EXCEPT ![c] = 1]
    /\ savedStocks' = [savedStocks EXCEPT ![c] = <<>>]
    /\ result' = [result EXCEPT ![c] = <<>>]
    /\ raised' = [raised EXCEPT ![c] = FALSE]
    /\ cause' = [cause EXCEPT ![c] = "none"]
    /\ UNCHANGED <<storeVars, clock, extractVars, queryVars>>

\* initPuppeteer: launch, newPage, then the page's setup calls; any of the
\* three may reject, leaving what was assigned before it.
initPuppeteer(c) ==
    /\ pc[c] = "init"
    /\ \/ /\ browser' = [browser EXCEPT ![c] = "open"]
          /\ page' = [page EXCEPT ![c] = "open"]
          /\ pc' = [pc EXCEPT ![c] = "goto"]
          /\ UNCHANGED <<result, raised, cause>>
       \/ /\ catch(c, "launch")
          /\ UNCHANGED <<browser, page>>
       \/ /\ browser' = [browser EXCEPT ![c] = "open"]
          /\ catch(c, "setup")
          /\ UNCHANGED page
       \/ /\ browser' = [browser EXCEPT ![c] = "open"]
          /\ page' = [page EXCEPT ![c] = "open"]
          /\ catch(c, "setup")
    /\ UNCHANGED <<table, stockData, idx, savedStocks, storeVars, clock, runs,
                   orphans, extractVars, queryVars>>

\* page.goto: the page shows one of the tables, or navigation fails.
goto(c) ==
    /\ pc[c] = "goto"
    /\ \/ /\ \E t \in PageTables : table' = [table EXCEPT ![c] = t]
          /\ pc' = [pc EXCEPT ![c] = "wait"]
          /\ UNCHANGED <<result, raised, cause>>
       \/ /\ catch(c, "navigation")
          /\ UNCHANGED table
    /\ UNCHANGED <<browser, page, stockData, idx, savedStocks, storeVars, clock,
                   runs, orphans, extractVars, queryVars>>

\* A wait whose timeout is thrown on to the caller of scrapeStockData.
waitForFunctionPropagate(c) ==
    /\ pc[c] = "wait"
    /\ IF Len(table[c]) > RowThreshold
       THEN /\ pc' = [pc EXCEPT ![c] = "evaluate"]
            /\ UNCHANGED <<result, raised, cause>>
       ELSE catchRethrow(c, "timeout")
    /\ UNCHANGED <<browser, page, table, stockData, idx, savedStocks, storeVars,
                   clock, runs, orphans, extractVars, queryVars>>

\* waitForFunction(() => document.querySelectorAll('table tr').length > 5):
\* resolves when the table has more than five rows, rejects on timeout.
waitForFunction(c) ==
    /\ pc[c] = "wait"
    /\ IF Len(table[c]) > RowThreshold
       THEN /\ pc' = [pc EXCEPT ![c] = "evaluate"]
            /\ UNCHANGED <<result, raised, cause>>
       ELSE catch(c, "timeout")
    /\ UNCHANGED <<browser, page, table, stockData, idx, savedStocks, storeVars,
                   clock, runs, orphans, extractVars, queryVars>>

\* targetFrame.evaluate and the map that stamps scrapedAt: new Date() on
\* every record; saveToMongoDB is entered. evaluate may reject.
evaluate(c) ==
    /\ pc[c] = "evaluate"
    /\ \/ /\ stockData' = [stockData EXCEPT ![c] =
                 LET data == ExtractStocks(table[c])
                 IN  [i \in 1..Len(data) |->
                        [f \in DOMAIN data[i] \cup {"scrapedAt"} |->
                            IF f = "scrapedAt" THEN clock + 1 ELSE data[i][f]]]]
          /\ clock' = clock + 1
          /\ pc' = [pc EXCEPT ![c] = "save"]
          /\ UNCHANGED <<result, raised, cause>>
       \/ /\ catch(c, "evaluate")
          /\ UNCHANGED <<stockData, clock>>
    /\ UNCHANGED <<browser, page, table, idx, savedStocks, storeVars, runs,
                   orphans, extractVars, queryVars>>

\* One turn of the for loop of saveToMongoDB: findOneAndUpdate with upsert
\* finds a document with the symbol and updates it in one step, or finds none
\* (the insert follows as a step of its own: the symbol index is not unique,
\* so nothing stops another upsert of the symbol in between), or rejects.
findOneAndUpdate(c) ==
    /\ pc[c] = "save"
    /\ idx[c] <= Len(stockData[c])
    /\ LET info == castUpdate(stockData[c][idx[c]])
       IN  \/ /\ \E d \in Matches(store, info) :
                    /\ store' = (store \ {d}) \cup {Updated(d, info)}
                    /\ savedStocks' = [savedStocks EXCEPT ![c] =
                                          Append(@, Updated(d, info))]
              /\ lastUpsert' = [s \in DOMAIN lastUpsert \cup {info.symbol} |->
                                  IF s = info.symbol THEN info ELSE lastUpsert[s]]
              /\ idx' = [idx EXCEPT ![c] = @ + 1]
              /\ UNCHANGED <<pc, result, raised, cause>>
           \/ /\ Matches(store, info) = {}
              /\ pc' = [pc EXCEPT ![c] = "insert"]
              /\ UNCHANGED <<store, savedStocks, lastUpsert, idx, result,
                             raised, cause>>
           \/ /\ catch(c, "persistence")
              /\ UNCHANGED <<store, savedStocks, lastUpsert, idx>>
    /\ UNCHANGED <<browser, page, table, stockData, nextId, clock, runs,
                   orphans, extractVars, queryVars>>

\* The insert of an upsert whose filter selected nothing.
upsertInsert(c) ==
    /\ pc[c] = "insert"
    /\ LET info == castUpdate(stockData[c][idx[c]])
           doc  == Inserted(info, nextId)
       IN  /\ store' = store \cup {doc}
           /\ savedStocks' = [savedStocks EXCEPT ![c] = Append(@, doc)]
           /\ lastUpsert' = [s \in DOMAIN lastUpsert \cup {info.symbol} |->
                               IF s = info.symbol THEN info ELSE lastUpsert[s]]
    /\ nextId' = nextId + 1
    /\ idx' = [idx EXCEPT ![c] = @ + 1]
    /\ pc' = [pc EXCEPT ![c] = "save"]
    /\ UNCHANGED <<browser, page, table, stockData, result, raised, cause,
                   clock, runs, orphans, extractVars, queryVars>>

\* The loop is over (or the batch was empty): saveToMongoDB returns
\* savedStocks and scrapeStockData returns it.
returnSaved(c) ==
    /\ pc[c] = "save"
    /\ idx[c] > Len(stockData[c])
    /\ result' = [result EXCEPT ![c] = savedStocks[c]]
    /\ pc' = [pc EXCEPT ![c] = "finally"]
    /\ UNCHANGED <<browser, page, table, stockData, idx, savedStocks, raised,
                   cause, storeVars, clock, runs, orphans, extractVars, queryVars>>

\* finally { await this.closePuppeteer(); }: the page is closed if there is
\* one, then the browser if there is one; a page.close() that rejects is
\* caught and logged, and browser.close() is then not reached.
\* browser.close() ends the browser process and is taken to succeed.
closePuppeteer(c) ==
    /\ pc[c] = "finally"
    /\ \/ /\ page' = [page EXCEPT ![c] = IF @ = "null" THEN "null" ELSE "closed"]
          /\ browser' = [browser EXCEPT ![c] =
                            IF @ = "null" THEN "null" ELSE "closed"]
       \/ /\ page[c] # "null"
          /\ UNCHANGED <<page, browser>>
    /\ pc' = [pc EXCEPT ![c] = "done"]
    /\ UNCHANGED <<table, stockData, idx, savedStocks, result, raised, cause,
                   storeVars, clock, runs, orphans, extractVars, queryVars>>

\* A step of the scrape cycle of trigger c, once started.
Step(c) ==
    \/ initPuppeteer(c)
    \/ goto(c)
    \/ waitForFunction(c)
    \/ evaluate(c)
    \/ findOneAndUpdate(c)
    \/ upsertInsert(c)
    \/ returnSaved(c)
    \/ closePuppeteer(c)

InitCycles ==
    /\ pc = [c \in Triggers |-> "idle"]
    /\ browser = [c \in Triggers |-> "null"]
    /\ page = [c \in Triggers |-> "null"]
    /\ table = [c \in Triggers |-> <<>>]
    /\ stockData = [c \in Triggers |-> <<>>]
    /\ idx = [c \in Triggers |-> 1]
    /\ savedStocks = [c \in Triggers |-> <<>>]
    /\ result = [c \in Triggers |-> <<>>]
    /\ raised = [c \in Triggers |-> FALSE]
    /\ cause = [c \in Triggers |-> "none"]
    /\ clock = 0
    /\ runs = 0
    /\ orphans = 0

InitStore ==
    /\ store = {}
    /\ nextId = 1
    /\ lastUpsert = <<>>

InitExtract ==
    /\ rows = <<>>
    /\ extracted = <<>>
    /\ evaluated = FALSE

InitQuery ==
    /\ qLimit = 0
    /\ qResult = <<>>
    /\ qDone = FALSE
    /\ qKept = {}
    /\ qSummary = <<>>
    /\ qRequest = <<>>
    /\ qTotal = 0

\* The server: an empty collection, no cycle running; the manual endpoint and
\* the scheduler start cycles whenever they are called, also while another
\* cycle is running.
Init == InitCycles /\ InitStore /\ InitExtract /\ InitQuery

Next == \E c \in Triggers : runScraper(c) \/ Step(c)

Spec == Init /\ [][Next]_vars

\* The same with the cycles one after the other: a cycle starts only when no
\* other is running.
NextSeq ==
    \E c \in Triggers :
        \/ (\A o \in Triggers : pc[o] \in {"idle", "done"}) /\ runScraper(c)
        \/ Step(c)

SpecSeq == Init /\ [][NextSeq]_vars

\* -------------------------------------- the evaluate callback alone

\* The rows a table handed to the callback is made of: valid ones, and one
\* for every way a row can fail.
ExampleRows ==
    { HeaderRow,
      DataRow(9, <<"a", ".">>, NameA, <<"1", ".", "5">>, <<"0">>),
      DataRow(8, <<"B">>, NameB, <<"2">>, <<"1">>),
      DataRow(6, <<"A">>, NameA, <<"1", ".", "5">>, <<"0">>),
      DataRow(9, <<"-", ".">>, NameA, <<"5">>, <<"0">>),
      DataRow(9, <<"A">>, NameA, <<"0", ".", "0">>, <<"0">>),
      DataRow(9, <<"B">>, NameB, <<"-", "2">>, <<"1">>),
      DataRow(8, <<"A">>, NameA, <<"-">>, <<"0">>) }

ExampleTables ==
    UNION {[1..n -> ExampleRows] : n \in 0..MaxRows}

InitEvaluate ==
    /\ InitCycles /\ InitStore /\ InitQuery
    /\ rows \in ExampleTables
    /\ extracted = <<>>
    /\ evaluated = FALSE

\* The callback of targetFrame.evaluate run on rows.
evaluateCallback ==
    /\ ~evaluated
    /\ extracted' = ExtractStocks(rows)
    /\ evaluated' = TRUE
    /\ UNCHANGED <<cycleVars, storeVars, clock, runs, orphans, rows, queryVars>>

SpecEvaluate == InitEvaluate /\ [][evaluateCallback]_vars

\* ------------------------------------------ Query/Aggregation Layer

\* a < b in the order of the code units.
RECURSIVE StrLess(_, _)
StrLess(a, b) ==
    IF b = <<>> THEN FALSE
    ELSE IF a = <<>> THEN TRUE
    ELSE IF Head(a) = Head(b) THEN StrLess(Tail(a), Tail(b))
    ELSE CharCode(Head(a)) < CharCode(Head(b))

\* The sequences that list every element of S once.
Perms(S) ==
    {f \in [1..Cardinality(S) -> S] : \A i, j \in DOMAIN f : i # j => f[i] # f[j]}

\* The orders a $sort may leave S in: a pair <<a, b>> of before says that a
\* must come before b; documents that neither must precede the other come in
\* any order.
SortedBy(S, before) ==
    {f \in Perms(S) : \A i, j \in DOMAIN f : i < j => <<f[j], f[i]>> \notin before}

\* A first sort with scrapedAt ascending.
firstSortOldestFirst(a, b) ==
    \/ StrLess(a.symbol, b.symbol)
    \/ a.symbol = b.symbol /\ a.scrapedAt < b.scrapedAt

\* { $sort: { symbol: 1, scrapedAt: -1 } }
firstSort(a, b) ==
    \/ StrLess(a.symbol, b.symbol)
    \/ a.symbol = b.symbol /\ a.scrapedAt > b.scrapedAt

\* { $sort: { symbol: 1 } }
lastSort(a, b) == StrLess(a.symbol, b.symbol)

\* The results findLatest may return on the collection st: the documents are
\* sorted, each symbol's group keeps the first of its documents ($first of
\* $$ROOT), the groups come out of $group in any order, $limit keeps the
\* first limit of them and the last $sort orders these by symbol.
findLatest(st, limit) ==
    UNION { LET first(s) == sorted[CHOOSE i \in DOMAIN sorted :
                                /\ sorted[i].symbol = s
                                /\ \A j \in 1..(i - 1) : sorted[j].symbol # s]
                groups == {first(s) : s \in {d.symbol : d \in st}}
            IN  UNION { LET limited == {grouped[i] : i \in 1..limit \cap DOMAIN grouped}
                        IN  SortedBy(limited, {p \in limited \X limited : lastSort(p[1], p[2])})
                        : grouped \in Perms(groups) }
            : sorted \in SortedBy(st, {p \in st \X st : firstSort(p[1], p[2])}) }

\* A stored document as a scrape writes it.
StoredDoc(id, sym, at, change) ==
    [id |-> id, symbol |-> sym, securityName |-> <<"A", "a">>,
     open |-> Pow10(MaxTextLen), high |-> Pow10(MaxTextLen),
     low |-> Pow10(MaxTextLen), close |-> Pow10(MaxTextLen),
     change |-> change * Pow10(MaxTextLen), dailyVolume |-> Pow10(MaxTextLen),
     dailyValue |-> Pow10(MaxTextLen), scrapedAt |-> at]

QuerySymbols == {<<"A">>, <<"A", "B">>, <<"B">>}
QueryTimes == {1, 2}
QueryChanges == {0}

\* Collections of up to MaxDocs documents; a symbol may have several (two
\* upserts of a symbol that ran concurrently can both insert).
QueryStores ==
    { {StoredDoc(i, f[i][1], f[i][2], f[i][3]) : i \in 1..n} :
        n \in 0..MaxDocs,
        f \in [1..MaxDocs -> QuerySymbols \X QueryTimes \X QueryChanges] }

InitLatest ==
    /\ InitCycles /\ InitExtract /\ InitQuery
    /\ store \in QueryStores
    /\ nextId = MaxDocs + 1
    /\ lastUpsert = <<>>

\* GET /api/stocks/latest: Stock.findLatest(Number(limit)).
getLatest ==
    /\ ~qDone
    /\ \E limit \in 1..MaxLimit :
          /\ qLimit' = limit
          /\ \E r \in findLatest(store, limit) : qResult' = r
    /\ qDone' = TRUE
    /\ UNCHANGED <<cycleVars, storeVars, clock, runs, orphans, extractVars,
                   listVars>>

SpecLatest == InitLatest /\ [][getLatest]_vars

\* ------------------------------------------------- getMarketSummary

\* { $limit: 200 }
SummaryLimit == 200

\* { $sort: { scrapedAt: -1 } }: a must come before b.
summarySort(a, b) == a.scrapedAt > b.scrapedAt

\* The pipeline without its $limit stage.
recentRecordsUnlimited(st) == {st}

\* The sets of documents that { $sort: { scrapedAt: -1 } }, { $limit: 200 }
\* may pass on to $group: a document is among the first 200 of every sorted
\* order when fewer than 200 others may come before it, and of some sorted
\* order when fewer than 200 must come before it.
recentRecords(st) ==
    IF Cardinality(st) <= SummaryLimit THEN {st}
    ELSE LET always == {d \in st :
                 Cardinality({e \in st \ {d} : ~summarySort(d, e)}) < SummaryLimit}
             maybe  == {d \in st \ always :
                 Cardinality({e \in st : summarySort(e, d)}) < SummaryLimit}
         IN  {always \cup T : T \in {U \in SUBSET maybe :
                 Cardinality(always) + Cardinality(U) = SummaryLimit}}

\* The sum of n * count[n] over the numbers n of V.
RECURSIVE WeightedSum(_, _)
WeightedSum(V, count) ==
    IF V = {} THEN 0
    ELSE LET n == CHOOSE x \in V : TRUE
         IN  n * count[n] + WeightedSum(V \ {n}, count)

\* { $sum: '$field' } over the documents of S: every value of the field,
\* as many times as documents hold it.
SumOf(S, field) ==
    LET values == {d[field] : d \in S}
    IN  WeightedSum(values,
                    [n \in values |-> Cardinality({d \in S : d[field] = n})])

\* { $gt: ['$change', 0] }
isGainer(d) == d.change > 0

\* { $lt: ['$change', 0] }
isLoser(d) == d.change < 0

\* { $eq: ['$change', 0] }
isUnchanged(d) == d.change = 0

\* The $group stage with _id: null: one document for all its input, none when
\* there is no input. avgPrice is rounded down to the unit of the numbers.
groupAll(kept) ==
    IF kept = {} THEN <<>>
    ELSE << [id          |-> "null",
             totalStocks |-> Cardinality(kept),
             totalVolume |-> SumOf(kept, "dailyVolume"),
             totalValue  |-> SumOf(kept, "dailyValue"),
             avgPrice    |-> SumOf(kept, "close") \div Cardinality(kept),
             gainers     |-> Cardinality({d \in kept : isGainer(d)}),
             losers      |-> Cardinality({d \in kept : isLoser(d)}),
             unchanged   |-> Cardinality({d \in kept : isUnchanged(d)})] >>

\* The object the GET /summary handler answers with when summary[0] is absent.
EmptySummary ==
    [totalStocks |-> 0, totalVolume |-> 0, totalValue |-> 0, avgPrice |-> 0,
     gainers |-> 0, losers |-> 0, unchanged |-> 0]

\* The symbol of the i-th document of the bulk: N and the digits of i.
BulkSymbol(i) ==
    LET digit(k) == CASE k = 0 -> "0" [] k = 1 -> "1" [] k = 2 -> "2" [] k = 3 -> "5"
    IN  <<"N", digit((i \div 64) % 4), digit((i \div 16) % 4),
          digit((i \div 4) % 4), digit(i % 4)>>

\* A bulk of n documents, one per symbol, all scraped at time 3 (after the
\* other documents of the store), a third each gaining, losing and unchanged.
Bulk(n) == {StoredDoc(i, BulkSymbol(i), 3, (i % 3) - 1) : i \in 1..n}

\* Stores for the market summary: empty or nearly 200 documents of a bulk,
\* and up to MaxExtra older documents of one symbol (not deduplicated), of
\* any sign of change.
SummaryStores ==
    { Bulk(k) \cup {StoredDoc(SummaryLimit + i, <<"A">>, f[i][1], f[i][2]) : i \in 1..n} :
        k \in {0, SummaryLimit - 1},
        n \in 0..MaxExtra,
        f \in [1..MaxExtra -> QueryTimes \X {-1, 0, 1}] }

InitSummary ==
    /\ InitCycles /\ InitExtract /\ InitQuery
    /\ store \in SummaryStores
    /\ nextId = SummaryLimit + MaxExtra + 1
    /\ lastUpsert = <<>>

\* GET /api/stocks/summary: Stock.getMarketSummary(), then summary[0] or the
\* all-zero object.
getSummary ==
    /\ ~qDone
    /\ \E kept \in recentRecords(store) :
          /\ qKept' = kept
          /\ qSummary' = LET summary == groupAll(kept)
                         IN  IF summary = <<>> THEN EmptySummary ELSE summary[1]
    /\ qDone' = TRUE
    /\ UNCHANGED <<cycleVars, storeVars, clock, runs, orphans, extractVars,
                   qLimit, qResult, qRequest, qTotal>>

SpecSummary == InitSummary /\ [][getSummary]_vars

\* ------------------------------------------------- GET /api/stocks

\* new RegExp(pattern, 'i') matched against text, for a pattern of letters and
\* digits: text holds pattern somewhere, whatever the case.
regExpTest(pattern, text) ==
    \E i \in 0..(Len(text) - Len(pattern)) :
        \A k \in 1..Len(pattern) :
            toUpperCase(text[i + k]) = toUpperCase(pattern[k])

\* The query object built from req.query, applied to document d. A parameter
\* that is absent (or empty) is <<>> and adds no condition.
matchesQuery(d, q) ==
    /\ q.symbol # <<>> => regExpTest(q.symbol, d.symbol)
    /\ q.securityName # <<>> => regExpTest(q.securityName, d.securityName)
    /\ q.minClose # <<>> => d.close >= q.minClose[1]
    /\ q.maxClose # <<>> => d.close <= q.maxClose[1]
    /\ q.startDate # <<>> => d.scrapedAt >= q.startDate[1]
    /\ q.endDate # <<>> => d.scrapedAt <= q.endDate[1]

validSortFields ==
    {"symbol", "securityName", "open", "high", "low", "close", "change",
     "dailyVolume", "dailyValue", "scrapedAt"}

\* validSortFields.includes(sortBy) ? sortBy : 'symbol'
sortField(q) == IF q.sortBy \in validSortFields THEN q.sortBy ELSE "symbol"

\* The value of field f of a sorts below that of b.
fieldLess(a, b, f) ==
    IF f \in {"symbol", "securityName"} THEN StrLess(a[f], b[f]) ELSE a[f] < b[f]

\* { [sortField]: sortOrder === 'desc' ? -1 : 1 }: a must come before b.
sortOptions(a, b, q) ==
    IF q.sortOrder = "desc" THEN fieldLess(b, a, sortField(q))
    ELSE fieldLess(a, b, sortField(q))

\* A skip that starts one page too far.
skipNextPage(q) == q.page * q.limit

\* const skip = (page - 1) * limit
skip(q) == (q.page - 1) * q.limit

\* Stock.find(query).sort(sortOptions).limit(Number(limit)).skip(skip): the
\* matching documents in an order the sort may produce, without the first
\* skip of them and cut to limit.
find(st, q) ==
    LET matching == {d \in st : matchesQuery(d, q)}
    IN  { SubSeq(sorted, skip(q) + 1,
                 IF skip(q) + q.limit < Len(sorted)
                 THEN skip(q) + q.limit ELSE Len(sorted))
          : sorted \in SortedBy(matching,
                {p \in matching \X matching : sortOptions(p[1], p[2], q)}) }

\* Stock.countDocuments(query)
countDocuments(st, q) == Cardinality({d \in st : matchesQuery(d, q)})

\* A stored document with a name and a close of its own.
ListedDoc(id, sym, name, close, at) ==
    [StoredDoc(id, sym, at, 0) EXCEPT !.securityName = name,
                                      !.close = close * Pow10(MaxTextLen)]

\* Stores for the listing: up to MaxListed documents, with symbols, names,
\* closes and scrape times that repeat.
ListedStores ==
    { {ListedDoc(i, f[i][1], f[i][2], f[i][3], f[i][4]) : i \in 1..n} :
        n \in 0..MaxListed,
        f \in [1..MaxListed -> { <<<<"A">>, <<"A", "a">>, 2, 1>>,
                                 <<<<"A", "B">>, <<"B", "b">>, 1, 2>>,
                                 <<<<"B">>, <<"A", "a">>, 2, 2>> }] }

\* The filters of a request: none, a symbol, a name, a least close, a close
\* range, a date range.
NoFilter ==
    [symbol |-> <<>>, securityName |-> <<>>, minClose |-> <<>>,
     maxClose |-> <<>>, startDate |-> <<>>, endDate |-> <<>>]

ListedFilters ==
    { NoFilter,
      [NoFilter EXCEPT !.symbol = <<"a">>],
      [NoFilter EXCEPT !.securityName = <<"B">>],
      [NoFilter EXCEPT !.minClose = <<2 * Pow10(MaxTextLen)>>],
      [NoFilter EXCEPT !.minClose = <<Pow10(MaxTextLen)>>,
                       !.maxClose = <<Pow10(MaxTextLen)>>, !.endDate = <<2>>],
      [NoFilter EXCEPT !.startDate = <<2>>] }

\* sortBy and sortOrder of a request: fields of the list, and values that
\* are no field and no order.
ListedSorts ==
    { <<"symbol", "asc">>, <<"close", "desc">>, <<"scrapedAt", "up">>,
      <<"sector", "desc">>, <<"sector", "asc">> }

InitListed ==
    /\ InitCycles /\ InitExtract /\ InitQuery
    /\ store \in ListedStores
    /\ nextId = MaxListed + 1
    /\ lastUpsert = <<>>

\* GET /api/stocks: the page of documents and the count of the matching ones.
getStocks ==
    /\ ~qDone
    /\ \E filter \in ListedFilters, sort \in ListedSorts,
          pageNo \in 1..MaxPage, limit \in 1..MaxLimit :
          LET q == [f \in DOMAIN filter \cup {"page", "limit", "sortBy", "sortOrder"} |->
                       CASE f = "page" -> pageNo
                         [] f = "limit" -> limit
                         [] f = "sortBy" -> sort[1]
                         [] f = "sortOrder" -> sort[2]
                         [] OTHER -> filter[f]]
          IN  /\ qRequest' = q
              /\ \E stocks \in find(store, q) : qResult' = stocks
              /\ qTotal' = countDocuments(store, q)
    /\ qDone' = TRUE
    /\ UNCHANGED <<cycleVars, storeVars, clock, runs, orphans, extractVars,
                   qLimit, qKept, qSummary>>

SpecListed == InitListed /\ [][getStocks]_vars

\* ------------------------------------------------------------ claims

\* The cycle of trigger c has returned to its caller.
Returned(c) == pc[c] = "done"

\* C1: when a scrape cycle has returned, whatever way it ended, the browser
\* and the page it acquired are closed.
C1_ClosedOnReturn ==
    \A c \in Triggers :
        Returned(c) => browser[c] # "open" /\ page[c] # "open"

\* C2: a failure while upserting one record of a batch does not abort the
\* batch: every other record of the batch is upserted, and nothing is raised.
C2_FailureIsolated ==
    \A c \in Triggers :
        Returned(c) /\ cause[c] = "persistence"
            => /\ Len(savedStocks[c]) >= Len(stockData[c]) - 1
               /\ ~raised[c]

\* C3: with the upserts one after the other, the store holds exactly one
\* entity per symbol ever upserted, and its fields and scrapedAt are those of
\* the most recent upsert of the symbol.
C3_OneEntityPerSymbol ==
    /\ \A d \in store : d.symbol \in DOMAIN lastUpsert
    /\ \A s \in DOMAIN lastUpsert :
          LET docs == {d \in store : d.symbol = s}
          IN  /\ Cardinality(docs) = 1
              /\ \A d \in docs : Fields(d) = lastUpsert[s]

\* C3's case: a first cycle stored A and B, and a later cycle has upserted A
\* again (twice: its table lists A twice) while B is still the first cycle's.
C3_Witness ==
    /\ \A c \in Triggers : pc[c] \in {"idle", "done"}
    /\ \E a, b \in store :
          /\ a.symbol = <<"A">> /\ b.symbol = <<"B">>
          /\ b.scrapedAt = 1 /\ a.scrapedAt = 2
          /\ a.close = parseNumber(<<"2", "5">>)

\* C4: a cycle ended by a navigation failure or an extraction failure returns
\* an empty list, and no exception reaches its caller.
C4_FailureReturnsEmpty ==
    \A c \in Triggers :
        Returned(c) /\ cause[c] \in {"navigation", "timeout", "evaluate"}
            => result[c] = <<>> /\ ~raised[c]

\* C4's case: each of the three failures has ended a cycle, one of them while
\* the store already held documents.
C4_Witness ==
    /\ \E c \in Triggers : Returned(c) /\ cause[c] = "navigation"
    /\ \E c \in Triggers : Returned(c) /\ cause[c] \in {"timeout", "evaluate"}
    /\ store # {}

\* What the caller of scrapeStockData observes of a returned cycle.
Outcome(c) == [result |-> result[c], raised |-> raised[c]]

\* The cycle of trigger c extracted zero rows and ended without any failure.
ZeroRows(c) == Returned(c) /\ cause[c] = "none" /\ stockData[c] = <<>>

Qualifies(cells) ==
    /\ Len(cells) >= 8
    /\ cleanSymbol(cells[1]) # <<>>
    /\ parseNumber(cells[6]) > 0

\* The positions in rows of the rows that qualify.
QualifyingRows == {i \in 1..Len(rows) : Qualifies(rows[i])}

\* C6: the extractor's output is exactly the qualifying rows, in row order:
\* it has as many records as rows qualify, and its k-th record is read from
\* the k-th qualifying row.
C6_ExactlyQualifyingRows ==
    evaluated =>
        /\ Len(extracted) = Cardinality(QualifyingRows)
        /\ \A k \in 1..Len(extracted) :
              \E i \in QualifyingRows :
                 /\ Cardinality({j \in QualifyingRows : j <= i}) = k
                 /\ extracted[k] = RowRecord(rows[i])

\* C6's case: a table of three rows whose second has 6 cells has yielded two
\* records.
C6_Witness ==
    /\ evaluated
    /\ Len(rows) = 3
    /\ Len(rows[2]) = 6
    /\ Qualifies(rows[1]) /\ Qualifies(rows[3]) /\ rows[1] # rows[3]
    /\ Len(extracted) = 2

\* C7: at most one browser is launched and not yet closed at any time.
C7_AtMostOneBrowser ==
    orphans + Cardinality({c \in Triggers : browser[c] = "open"}) <= 1

\* C8: once concurrent batches have finished, the store holds exactly one
\* entity for each symbol they upserted, and its fields are those of the
\* record whose upsert was applied last.
C8_OneEntityAfterRace ==
    (\A c \in Triggers : pc[c] \in {"idle", "done"}) =>
        \A s \in DOMAIN lastUpsert :
            LET docs == {d \in store : d.symbol = s}
            IN  /\ Cardinality(docs) = 1
                /\ \A d \in docs : Fields(d) = lastUpsert[s]

\* C9: every stored record has a symbol that is not empty and made of
\* characters of [A-Z0-9] only, and a close above 0.
C9_StoredRecordsValid ==
    \A d \in store :
        /\ d.symbol # <<>>
        /\ \A i \in 1..Len(d.symbol) : d.symbol[i] \in UpperLetters \cup Digits
        /\ d.close > 0

\* C9's case: the store holds A, read from the cell " a.", and B, read from
\* "b", while rows with a close of 0 or below were on the pages.
C9_Witness ==
    /\ \E d \in store : d.symbol = <<"A">> /\ d.close = parseNumber(<<"5">>)
    /\ \E d \in store : d.symbol = <<"B">>
    /\ \E c \in Triggers : Returned(c) /\ table[c] = TableNone

\* C10: findLatest returns at most one record per symbol, each the one with
\* the greatest scrapedAt among the stored records of its symbol, at most
\* limit records, ordered by symbol ascending.
C10_LatestPerSymbol ==
    qDone =>
        /\ \A i, j \in 1..Len(qResult) :
              i # j => qResult[i].symbol # qResult[j].symbol
        /\ \A i \in 1..Len(qResult) :
              /\ qResult[i] \in store
              /\ \A d \in store :
                    d.symbol = qResult[i].symbol
                       => d.scrapedAt <= qResult[i].scrapedAt
        /\ Len(qResult) <= qLimit
        /\ \A i, j \in 1..Len(qResult) :
              i < j => StrLess(qResult[i].symbol, qResult[j].symbol)

\* C10's case: a symbol has an older and a newer record, the store has more
\* symbols than the limit, and the query has returned two records.
C10_Witness ==
    /\ qDone
    /\ \E a, b \in store : a.symbol = b.symbol /\ a.scrapedAt < b.scrapedAt
    /\ Cardinality({d.symbol : d \in store}) > qLimit
    /\ Len(qResult) = 2

\* C11: the market summary is computed over the (at most 200) most recent
\* records by scrapedAt, not deduplicated by symbol: totalStocks is their
\* number, gainers, losers and unchanged the numbers of them with a change
\* above, below and equal to 0; on an empty store every field is 0.
C11_SummaryOverRecent ==
    qDone =>
        /\ qKept \subseteq store
        /\ Cardinality(qKept) = IF Cardinality(store) < 200
                                THEN Cardinality(store) ELSE 200
        /\ \A a \in qKept : \A b \in store \ qKept : a.scrapedAt >= b.scrapedAt
        /\ qSummary.totalStocks = Cardinality(qKept)
        /\ qSummary.gainers = Cardinality({d \in qKept : d.change > 0})
        /\ qSummary.losers = Cardinality({d \in qKept : d.change < 0})
        /\ qSummary.unchanged = Cardinality({d \in qKept : d.change = 0})
        /\ store = {} => qSummary = [totalStocks |-> 0, totalVolume |-> 0,
                                     totalValue |-> 0, avgPrice |-> 0,
                                     gainers |-> 0, losers |-> 0,
                                     unchanged |-> 0]

\* C11's case: a store of 202 records, three of them of symbol A; the summary
\* counts 200 of them, one of A among these, and leaves out two older ones.
C11_Witness ==
    /\ qDone
    /\ Cardinality(store) = 202
    /\ qSummary.totalStocks = 200
    /\ Cardinality({d \in qKept : d.symbol = <<"A">>}) = 1
    /\ \E d \in store \ qKept : d.change > 0
    /\ qSummary.gainers > 0 /\ qSummary.losers > 0 /\ qSummary.unchanged > 0

\* C12: the listing returns as items the records at offsets (page-1)*limit
\* to page*limit - 1 of the matching records in sorted order, and as total
\* the number of all matching records, whatever the page and the limit; a
\* sortBy outside the allow-list sorts by symbol.
C12_PageOfSorted ==
    qDone =>
        LET q == qRequest
            matching == {d \in store : matchesQuery(d, q)}
            by == IF q.sortBy \in {"symbol", "securityName", "open", "high",
                                   "low", "close", "change", "dailyVolume",
                                   "dailyValue", "scrapedAt"}
                  THEN q.sortBy ELSE "symbol"
            below(a, b) == IF by \in {"symbol", "securityName"}
                           THEN StrLess(a[by], b[by]) ELSE a[by] < b[by]
            inOrder(a, b) == IF q.sortOrder = "desc" THEN ~below(a, b)
                             ELSE ~below(b, a)
            first == (q.page - 1) * q.limit
        IN  /\ qTotal = Cardinality(matching)
            /\ \E seq \in Perms(matching) :
                  /\ \A i, j \in 1..Len(seq) : i < j => inOrder(seq[i], seq[j])
                  /\ Len(qResult) = Cardinality({k \in 1..Len(seq) :
                                        first < k /\ k <= first + q.limit})
                  /\ \A k \in 1..Len(qResult) : qResult[k] = seq[first + k]

\* C12's case: the second page of two of three matching records, sorted by a
\* field that is not in the allow-list, in descending order, holds the record
\* with the smallest symbol; the total is 3.
C12_Witness ==
    /\ qDone
    /\ qRequest.page = 2 /\ qRequest.limit = 2
    /\ qRequest.sortBy = "sector" /\ qRequest.sortOrder = "desc"
    /\ qTotal = 3
    /\ Len(qResult) = 1
    /\ \A d \in store : ~StrLess(d.symbol, qResult[1].symbol)
    /\ \E d \in store : StrLess(qResult[1].symbol, d.symbol)

====
